---- MODULE Spec2Model ----
(***************************************************************************)
(* The aggregator's task registry (aggregator/pkg/aggregator.go): the five *)
(* maps and nextBatchIndex guarded by taskMutex, the intake path           *)
(* AddNewTask and the garbage collector ClearTasksFromMaps, each modelled  *)
(* statement by statement so that the states inside a critical section     *)
(* exist in the model.                                                     *)
(***************************************************************************)
EXTENDS Integers, Sequences, FiniteSets, TLC

\* ------------------------------------------------------------------ bounds
\* nextBatchIndex is a uint32; the model keeps the wrap-around and scales
\* the modulus 2^32 down to IndexMod.
IndexMod == 4
\* merkle roots and sender addresses the intake callers may present
NRoots == 3
NSenders == 2
\* block numbers carried by the new-batch events
MaxBlock == 1
\* concurrently running AddNewTask callers
NCallers == 2
\* response handlers the dispatcher spawns, one per BLS response
NHandlers == 2
\* the runs of the aggregation loop: merkle roots the callers present, and
\* admissions before the intake stops
NRespRoots == 1
MaxRespAdmissions == 3

\* ------------------------------------------------------------- value sets
Indices == 0 .. (IndexMod - 1)
Roots == 1 .. NRoots
Senders == 1 .. NSenders
Blocks == 1 .. MaxBlock
Callers == 1 .. NCallers
Handlers == 1 .. NHandlers
RespRoots == 1 .. NRespRoots

\* crypto.Keccak256(merkleRoot ++ senderAddress): a collision-free digest of
\* the 52-byte concatenation, here the position of the pair in the
\* lexicographic order of all pairs.
Keccak256(root, sender) == (root - 1) * NSenders + sender

Hashes == { Keccak256(r, s) : r \in Roots, s \in Senders }

\* the zero value of a [32]byte, read from a map for a missing key
ZeroHash == 0

\* ------------------------------------------------------------ Go map helpers
EmptyMap == << >>

\* m[k] = v
MapPut(m, k, v) == [x \in (DOMAIN m) \cup {k} |-> IF x = k THEN v ELSE m[x]]

\* delete(m, k); a no-op when k is missing
MapDelete(m, k) == [x \in (DOMAIN m) \ {k} |-> m[x]]

\* v := m[k], the zero value when k is missing
MapGet(m, k, zero) == IF k \in DOMAIN m THEN m[k] ELSE zero

\* uint32 addition
AddU32(a, b) == (a + b) % IndexMod

VARIABLES
    batchesIdentifierHashByIdx,  \* map[uint32][32]byte
    batchesIdxByIdentifierHash,  \* map[[32]byte]uint32
    batchCreatedBlockByIdx,      \* map[uint32]uint64
    batchDataByIdentifierHash,   \* map[[32]byte]BatchData
    batchStartTimeByIdx,         \* map[uint32]time.Time
    nextBatchIndex,              \* uint32
    taskMutex,                   \* Unlocked or the holder
    apc,                         \* position of each AddNewTask caller
    call,                        \* arguments and locals of each caller
    gpc,                         \* position of the garbage collector
    gc,                          \* locals of the garbage collector
    blsTasks,                    \* task indices initialised in the BLS service
    receivedTasks,               \* metric aggregator_received_tasks
    aborted,                     \* logger.Fatalf ended the process
    now,                         \* the wall clock: readings of time.Now so far
    walletMutex,                 \* Unlocked or the holder
    hpc,                         \* position of each response handler
    resp,                        \* the BLS response each handler was spawned with
    snap,                        \* the handler's copies of the registry entry
    ret,                         \* what sendAggregatedResponse returned to it
    sends,                       \* avsWriter.SendAggregatedResponse calls, per handler
    telemetry,                   \* telemetry events, per handler
    aggregatedResponses,         \* metric aggregated_responses
    recovered,                   \* goroutines whose deferred recover logged a panic
    \* history variables
    assigned,                    \* <<index, identifier, block, clock>> of every admission
    warned,                      \* the "Batch already exists" warnings logged so far
    evicted,                     \* indices the GC has evicted
    gcSnap,                      \* registry when the GC locked taskMutex
    gcTick                       \* facts about the tick in progress

registry == << batchesIdentifierHashByIdx, batchesIdxByIdentifierHash,
               batchCreatedBlockByIdx, batchDataByIdentifierHash,
               batchStartTimeByIdx, nextBatchIndex >>

history == << assigned, warned, evicted, gcSnap, gcTick >>

\* the state of the aggregation loop: handlers, wallet, telemetry
respVars == << walletMutex, hpc, resp, snap, ret, sends, telemetry,
               aggregatedResponses, recovered >>

vars == << batchesIdentifierHashByIdx, batchesIdxByIdentifierHash,
           batchCreatedBlockByIdx, batchDataByIdentifierHash,
           batchStartTimeByIdx, nextBatchIndex, taskMutex, apc, call, gpc, gc,
           blsTasks, receivedTasks, aborted, now, respVars,
           assigned, warned, evicted, gcSnap, gcTick >>

\* sync.Mutex: unlocked, or locked by the goroutine named
Unlocked == << "free", 0 >>
HeldByCaller(c) == << "AddNewTask", c >>
HeldByGC == << "ClearTasksFromMaps", 0 >>
HeldByHandler(h) == << "handleBlsAggServiceResponse", h >>

\* the zero values a map read returns for a missing key
ZeroData == [BatchMerkleRoot |-> 0, SenderAddress |-> 0]
ZeroBlock == 0
\* time.Time{}: earlier than every reading of the clock
ZeroTime == -1

\* a handler that was not spawned: no response, no locals
NoResp == [TaskIndex |-> 0, Err |-> FALSE]
NoSnapshot == [batchIdentifierHash |-> ZeroHash, batchData |-> ZeroData,
               taskCreatedBlock |-> ZeroBlock, taskCreatedAt |-> ZeroTime]
NoRet == "none"

NoCall == [root |-> 0, sender |-> 0, block |-> 0, hash |-> ZeroHash, batchIndex |-> 0]

NoSnap == << >>

NoTick == [live |-> FALSE, repeat |-> FALSE]

\* NewAggregator: empty maps, nextBatchIndex 0, both mutexes unlocked;
\* ClearTasksFromMaps starts with lastIdxDeleted 0.
Init ==
    /\ batchesIdentifierHashByIdx = EmptyMap
    /\ batchesIdxByIdentifierHash = EmptyMap
    /\ batchCreatedBlockByIdx = EmptyMap
    /\ batchDataByIdentifierHash = EmptyMap
    /\ batchStartTimeByIdx = EmptyMap
    /\ nextBatchIndex = 0
    /\ taskMutex = Unlocked
    /\ apc = [c \in Callers |-> "idle"]
    /\ call = [c \in Callers |-> NoCall]
    /\ gpc = "sleep"
    /\ gc = [lastIdxDeleted |-> 0, oldTaskIdHash |-> ZeroHash, taskIdxToDelete |-> 0,
             i |-> 0, batchIdentifierHash |-> ZeroHash]
    /\ blsTasks = << >>
    /\ receivedTasks = 0
    /\ aborted = FALSE
    /\ now = 0
    /\ walletMutex = Unlocked
    /\ hpc = [h \in Handlers |-> "idle"]
    /\ resp = [h \in Handlers |-> NoResp]
    /\ snap = [h \in Handlers |-> NoSnapshot]
    /\ ret = [h \in Handlers |-> NoRet]
    /\ sends = [h \in Handlers |-> << >>]
    /\ telemetry = [h \in Handlers |-> {}]
    /\ aggregatedResponses = 0
    /\ recovered = {}
    /\ assigned = << >>
    /\ warned = {}
    /\ evicted = {}
    /\ gcSnap = NoSnap
    /\ gcTick = NoTick


\* ---------------------------------------------------------------- AddNewTask
\* mutant: the duplicate check is missing
IsDuplicate_off(h) == FALSE

\* line 380: _, ok := agg.batchesIdxByIdentifierHash[batchIdentifierHash]
IsDuplicate(h) == h \in DOMAIN batchesIdxByIdentifierHash

\* line 388: _, ok := agg.batchesIdentifierHashByIdx[batchIndex]
IndexTaken(i) == i \in DOMAIN batchesIdentifierHashByIdx

\* lines 365-375: the caller computes the identifier hash of its arguments
\* and agg.taskMutex.Lock() returns; nothing reads the arguments before that
AddLock(c) ==
    /\ ~aborted
    /\ apc[c] = "idle"
    /\ taskMutex = Unlocked
    /\ \E r \in Roots, s \in Senders, b \in Blocks :
          call' = [call EXCEPT ![c] = [root |-> r, sender |-> s, block |-> b,
                                       hash |-> Keccak256(r, s), batchIndex |-> 0]]
    /\ taskMutex' = HeldByCaller(c)
    /\ apc' = [apc EXCEPT ![c] = "check"]
    /\ UNCHANGED << respVars, registry, gpc, gc, blsTasks, receivedTasks,
                    aborted, now, history >>

\* mutant: a repeated announcement refreshes the start time of the entry
AddDuplicate_refresh(c) ==
    /\ ~aborted
    /\ apc[c] = "check"
    /\ IsDuplicate(call[c].hash)
    /\ batchStartTimeByIdx' =
          MapPut(batchStartTimeByIdx, batchesIdxByIdentifierHash[call[c].hash], now)
    /\ now' = now + 1
    /\ warned' = warned \cup {"identifier"}
    /\ taskMutex' = Unlocked
    /\ apc' = [apc EXCEPT ![c] = "idle"]
    /\ call' = [call EXCEPT ![c] = NoCall]
    /\ UNCHANGED << respVars, batchesIdentifierHashByIdx, batchesIdxByIdentifierHash,
                    batchCreatedBlockByIdx, batchDataByIdentifierHash, nextBatchIndex,
                    gpc, gc, blsTasks, receivedTasks,
                    aborted, assigned, evicted, gcSnap, gcTick >>

\* lines 379-385: the identifier is already registered: warn, unlock, return
AddDuplicate(c) ==
    /\ ~aborted
    /\ apc[c] = "check"
    /\ IsDuplicate(call[c].hash)
    /\ warned' = warned \cup {"identifier"}
    /\ taskMutex' = Unlocked
    /\ apc' = [apc EXCEPT ![c] = "idle"]
    /\ call' = [call EXCEPT ![c] = NoCall]
    /\ UNCHANGED << respVars, registry, gpc, gc, blsTasks, receivedTasks,
                    aborted, now, assigned, evicted, gcSnap, gcTick >>

\* lines 379, 387-393: the index is already registered: warn, unlock, return
AddIndexTaken(c) ==
    /\ ~aborted
    /\ apc[c] = "check"
    /\ ~IsDuplicate(call[c].hash)
    /\ IndexTaken(nextBatchIndex)
    /\ taskMutex' = Unlocked
    /\ apc' = [apc EXCEPT ![c] = "idle"]
    /\ call' = [call EXCEPT ![c] = NoCall]
    /\ warned' = warned \cup {"index"}
    /\ UNCHANGED << respVars, registry, gpc, gc, blsTasks, receivedTasks,
                    aborted, now, assigned, evicted, gcSnap, gcTick >>

\* lines 379-393: batchIndex := agg.nextBatchIndex, and neither check returns
AddAdmit(c) ==
    /\ ~aborted
    /\ apc[c] = "check"
    /\ ~IsDuplicate(call[c].hash)
    /\ ~IndexTaken(nextBatchIndex)
    /\ call' = [call EXCEPT ![c].batchIndex = nextBatchIndex]
    /\ apc' = [apc EXCEPT ![c] = "l395"]
    /\ assigned' = Append(assigned, << nextBatchIndex, call[c].hash,
                                    call[c].block, now >>)
    /\ UNCHANGED << respVars, registry, taskMutex, gpc, gc, blsTasks, receivedTasks,
                    aborted, now, warned, evicted, gcSnap, gcTick >>

\* line 395: agg.batchesIdxByIdentifierHash[batchIdentifierHash] = batchIndex
AddL395(c) ==
    /\ ~aborted
    /\ apc[c] = "l395"
    /\ batchesIdxByIdentifierHash' =
          MapPut(batchesIdxByIdentifierHash, call[c].hash, call[c].batchIndex)
    /\ apc' = [apc EXCEPT ![c] = "l396"]
    /\ UNCHANGED << respVars, batchesIdentifierHashByIdx, batchCreatedBlockByIdx,
                    batchDataByIdentifierHash, batchStartTimeByIdx, nextBatchIndex,
                    taskMutex, call, gpc, gc, blsTasks, receivedTasks,
                    aborted, now, history >>

\* mutant: the created block is not recorded
AddL396_missing(c) ==
    /\ ~aborted
    /\ apc[c] = "l396"
    /\ apc' = [apc EXCEPT ![c] = "l397"]
    /\ UNCHANGED << respVars, registry, taskMutex, call, gpc, gc, blsTasks, receivedTasks,
                    aborted, now, history >>

\* line 396: agg.batchCreatedBlockByIdx[batchIndex] = uint64(taskCreatedBlock)
AddL396(c) ==
    /\ ~aborted
    /\ apc[c] = "l396"
    /\ batchCreatedBlockByIdx' =
          MapPut(batchCreatedBlockByIdx, call[c].batchIndex, call[c].block)
    /\ apc' = [apc EXCEPT ![c] = "l397"]
    /\ UNCHANGED << respVars, batchesIdentifierHashByIdx, batchesIdxByIdentifierHash,
                    batchDataByIdentifierHash, batchStartTimeByIdx, nextBatchIndex,
                    taskMutex, call, gpc, gc, blsTasks, receivedTasks,
                    aborted, now, history >>

\* line 397: agg.batchesIdentifierHashByIdx[batchIndex] = batchIdentifierHash
AddL397(c) ==
    /\ ~aborted
    /\ apc[c] = "l397"
    /\ batchesIdentifierHashByIdx' =
          MapPut(batchesIdentifierHashByIdx, call[c].batchIndex, call[c].hash)
    /\ apc' = [apc EXCEPT ![c] = "l398"]
    /\ UNCHANGED << respVars, batchesIdxByIdentifierHash, batchCreatedBlockByIdx,
                    batchDataByIdentifierHash, batchStartTimeByIdx, nextBatchIndex,
                    taskMutex, call, gpc, gc, blsTasks, receivedTasks,
                    aborted, now, history >>

\* lines 398-401: agg.batchDataByIdentifierHash[batchIdentifierHash] = BatchData{...}
AddL398(c) ==
    /\ ~aborted
    /\ apc[c] = "l398"
    /\ batchDataByIdentifierHash' =
          MapPut(batchDataByIdentifierHash, call[c].hash,
                 [BatchMerkleRoot |-> call[c].root, SenderAddress |-> call[c].sender])
    /\ apc' = [apc EXCEPT ![c] = "l402"]
    /\ UNCHANGED << respVars, batchesIdentifierHashByIdx, batchesIdxByIdentifierHash,
                    batchCreatedBlockByIdx, batchStartTimeByIdx, nextBatchIndex,
                    taskMutex, call, gpc, gc, blsTasks, receivedTasks,
                    aborted, now, history >>

\* line 402: agg.batchStartTimeByIdx[batchIndex] = time.Now(); every reading
\* of the clock is later than the one before
AddL402(c) ==
    /\ ~aborted
    /\ apc[c] = "l402"
    /\ batchStartTimeByIdx' = MapPut(batchStartTimeByIdx, call[c].batchIndex, now)
    /\ now' = now + 1
    /\ apc' = [apc EXCEPT ![c] = "l408"]
    /\ UNCHANGED << respVars, batchesIdentifierHashByIdx, batchesIdxByIdentifierHash,
                    batchCreatedBlockByIdx, batchDataByIdentifierHash, nextBatchIndex,
                    taskMutex, call, gpc, gc, blsTasks, receivedTasks,
                    aborted, history >>

\* line 408: agg.nextBatchIndex += 1
AddL408(c) ==
    /\ ~aborted
    /\ apc[c] = "l408"
    /\ nextBatchIndex' = AddU32(nextBatchIndex, 1)
    /\ apc' = [apc EXCEPT ![c] = "l413"]
    /\ UNCHANGED << respVars, batchesIdentifierHashByIdx, batchesIdxByIdentifierHash,
                    batchCreatedBlockByIdx, batchDataByIdentifierHash,
                    batchStartTimeByIdx, taskMutex, call, gpc, gc,
                    blsTasks, receivedTasks, aborted, now, history >>

\* mutant: agg.nextBatchIndex is passed as the task index
AddBlsInit_nextIndex(c) ==
    /\ ~aborted
    /\ apc[c] = "l413"
    /\ blsTasks' = Append(blsTasks, nextBatchIndex)
    /\ apc' = [apc EXCEPT ![c] = "l418"]
    /\ UNCHANGED << respVars, registry, taskMutex, call, gpc, gc, receivedTasks,
                    aborted, now, history >>

\* line 413: InitializeNewTaskWithWindow(batchIndex, ...) returns nil
AddBlsInit(c) ==
    /\ ~aborted
    /\ apc[c] = "l413"
    /\ blsTasks' = Append(blsTasks, call[c].batchIndex)
    /\ apc' = [apc EXCEPT ![c] = "l418"]
    /\ UNCHANGED << respVars, registry, taskMutex, call, gpc, gc, receivedTasks,
                    aborted, now, history >>

\* mutant: the error is logged and the admission goes on
AddBlsInitFatal_logsOnly(c) ==
    /\ ~aborted
    /\ apc[c] = "l413"
    /\ apc' = [apc EXCEPT ![c] = "l418"]
    /\ UNCHANGED << respVars, registry, taskMutex, call, gpc, gc, blsTasks,
                    receivedTasks, aborted, now, history >>

\* lines 413-416: InitializeNewTaskWithWindow returns an error and
\* logger.Fatalf ends the process, taskMutex still held
AddBlsInitFatal(c) ==
    /\ ~aborted
    /\ apc[c] = "l413"
    /\ aborted' = TRUE
    /\ UNCHANGED << respVars, registry, taskMutex, apc, call, gpc, gc, blsTasks,
                    receivedTasks, now, history >>

\* lines 418-421: IncAggregatorReceivedTasks, agg.taskMutex.Unlock(), return
AddUnlock(c) ==
    /\ ~aborted
    /\ apc[c] = "l418"
    /\ receivedTasks' = receivedTasks + 1
    /\ taskMutex' = Unlocked
    /\ apc' = [apc EXCEPT ![c] = "idle"]
    /\ call' = [call EXCEPT ![c] = NoCall]
    /\ UNCHANGED << respVars, registry, gpc, gc, blsTasks, aborted, now, history >>


\* -------------------------------------------------------- ClearTasksFromMaps
\* the identifiers the garbage collector has evicted and that are not
\* registered now
EvictedHashes ==
    { assigned[n][2] : n \in { m \in 1 .. Len(assigned) : assigned[m][1] \in evicted } }
        \ DOMAIN batchesIdxByIdentifierHash

\* mutant: the loop starts at lastIdxDeleted
LoopStart_inclusive(last) == last

\* line 459: i := lastIdxDeleted + 1
LoopStart(last) == AddU32(last, 1)

\* line 459: i <= taskIdxToDelete
LoopCond(i, upTo) == i <= upTo

\* mutant: an unregistered hash resolves to the newest assigned index
ResolveIdx_newest(h) ==
    IF h \in DOMAIN batchesIdxByIdentifierHash
    THEN batchesIdxByIdentifierHash[h]
    ELSE AddU32(nextBatchIndex, IndexMod - 1)

\* line 456: taskIdxToDelete := agg.batchesIdxByIdentifierHash[*oldTaskIdHash]
ResolveIdx(h) == MapGet(batchesIdxByIdentifierHash, h, 0)

\* lines 441-448: sleep, GetOldTaskHash returns an error: skip this tick
GCQueryErr ==
    /\ ~aborted
    /\ gpc = "sleep"
    /\ UNCHANGED vars

\* lines 441-452: sleep, GetOldTaskHash returns nil: skip this tick
GCQueryNil ==
    /\ ~aborted
    /\ gpc = "sleep"
    /\ UNCHANGED vars

\* lines 441-453: sleep, GetOldTaskHash returns the identifier hash of a
\* task of the chain, registered here or not, and agg.taskMutex.Lock()
\* returns; nothing reads the hash before that
GCLock ==
    /\ ~aborted
    /\ gpc = "sleep"
    /\ taskMutex = Unlocked
    /\ \E h \in Hashes : gc' = [gc EXCEPT !.oldTaskIdHash = h]
    /\ taskMutex' = HeldByGC
    /\ gpc' = "l456"
    /\ gcSnap' = registry
    /\ UNCHANGED << respVars, registry, apc, call, blsTasks, receivedTasks,
                    aborted, now, assigned, warned, evicted, gcTick >>

\* lines 456-459: resolve the index of the reported hash, start the loop
GCResolve ==
    /\ ~aborted
    /\ gpc = "l456"
    /\ gc' = [gc EXCEPT !.taskIdxToDelete = ResolveIdx(gc.oldTaskIdHash),
                        !.i = LoopStart(gc.lastIdxDeleted)]
    /\ gcTick' = [live |-> gc.oldTaskIdHash \in DOMAIN batchesIdxByIdentifierHash,
                  repeat |-> gc.oldTaskIdHash \in EvictedHashes]
    /\ gpc' = "l459"
    /\ UNCHANGED << respVars, registry, taskMutex, apc, call, blsTasks, receivedTasks,
                    aborted, now, assigned, warned, evicted, gcSnap >>

\* lines 459-461: the loop condition holds and index i is registered
GCLoopFound ==
    /\ ~aborted
    /\ gpc = "l459"
    /\ LoopCond(gc.i, gc.taskIdxToDelete)
    /\ gc.i \in DOMAIN batchesIdentifierHashByIdx
    /\ gc' = [gc EXCEPT !.batchIdentifierHash = batchesIdentifierHashByIdx[gc.i]]
    /\ gpc' = "l463"
    /\ UNCHANGED << respVars, registry, taskMutex, apc, call, blsTasks, receivedTasks,
                    aborted, now, history >>

\* lines 459-460, 468-470: the loop condition holds, index i is not
\* registered: warn, i++
GCLoopMissing ==
    /\ ~aborted
    /\ gpc = "l459"
    /\ LoopCond(gc.i, gc.taskIdxToDelete)
    /\ gc.i \notin DOMAIN batchesIdentifierHashByIdx
    /\ gc' = [gc EXCEPT !.i = AddU32(gc.i, 1)]
    /\ UNCHANGED << respVars, registry, taskMutex, apc, call, gpc, blsTasks,
                    receivedTasks, aborted, now, history >>

\* mutant: the reverse entry is deleted under the reported hash instead of
\* the hash of index i
GCL463_wrongKey ==
    /\ ~aborted
    /\ gpc = "l463"
    /\ batchesIdxByIdentifierHash' =
          MapDelete(batchesIdxByIdentifierHash, gc.oldTaskIdHash)
    /\ gpc' = "l464"
    /\ UNCHANGED << respVars, batchesIdentifierHashByIdx, batchCreatedBlockByIdx,
                    batchDataByIdentifierHash, batchStartTimeByIdx, nextBatchIndex,
                    taskMutex, apc, call, gc, blsTasks, receivedTasks,
                    aborted, now, history >>

\* line 463: delete(agg.batchesIdxByIdentifierHash, batchIdentifierHash)
GCL463 ==
    /\ ~aborted
    /\ gpc = "l463"
    /\ batchesIdxByIdentifierHash' =
          MapDelete(batchesIdxByIdentifierHash, gc.batchIdentifierHash)
    /\ gpc' = "l464"
    /\ UNCHANGED << respVars, batchesIdentifierHashByIdx, batchCreatedBlockByIdx,
                    batchDataByIdentifierHash, batchStartTimeByIdx, nextBatchIndex,
                    taskMutex, apc, call, gc, blsTasks, receivedTasks,
                    aborted, now, history >>

\* line 464: delete(agg.batchCreatedBlockByIdx, i)
GCL464 ==
    /\ ~aborted
    /\ gpc = "l464"
    /\ batchCreatedBlockByIdx' = MapDelete(batchCreatedBlockByIdx, gc.i)
    /\ gpc' = "l465"
    /\ UNCHANGED << respVars, batchesIdentifierHashByIdx, batchesIdxByIdentifierHash,
                    batchDataByIdentifierHash, batchStartTimeByIdx, nextBatchIndex,
                    taskMutex, apc, call, gc, blsTasks, receivedTasks,
                    aborted, now, history >>

\* line 465: delete(agg.batchesIdentifierHashByIdx, i)
GCL465 ==
    /\ ~aborted
    /\ gpc = "l465"
    /\ batchesIdentifierHashByIdx' = MapDelete(batchesIdentifierHashByIdx, gc.i)
    /\ gpc' = "l466"
    /\ UNCHANGED << respVars, batchesIdxByIdentifierHash, batchCreatedBlockByIdx,
                    batchDataByIdentifierHash, batchStartTimeByIdx, nextBatchIndex,
                    taskMutex, apc, call, gc, blsTasks, receivedTasks,
                    aborted, now, history >>

\* line 466: delete(agg.batchDataByIdentifierHash, batchIdentifierHash)
GCL466 ==
    /\ ~aborted
    /\ gpc = "l466"
    /\ batchDataByIdentifierHash' =
          MapDelete(batchDataByIdentifierHash, gc.batchIdentifierHash)
    /\ gpc' = "l467"
    /\ UNCHANGED << respVars, batchesIdentifierHashByIdx, batchesIdxByIdentifierHash,
                    batchCreatedBlockByIdx, batchStartTimeByIdx, nextBatchIndex,
                    taskMutex, apc, call, gc, blsTasks, receivedTasks,
                    aborted, now, history >>

\* mutant: the start time of index i is not deleted
GCL467_noDelete ==
    /\ ~aborted
    /\ gpc = "l467"
    /\ gc' = [gc EXCEPT !.i = AddU32(gc.i, 1), !.batchIdentifierHash = ZeroHash]
    /\ gpc' = "l459"
    /\ evicted' = evicted \cup {gc.i}
    /\ UNCHANGED << respVars, registry, taskMutex, apc, call, blsTasks, receivedTasks,
                    aborted, now, assigned, warned, gcSnap, gcTick >>

\* lines 467, 459: delete(agg.batchStartTimeByIdx, i); i++
GCL467 ==
    /\ ~aborted
    /\ gpc = "l467"
    /\ batchStartTimeByIdx' = MapDelete(batchStartTimeByIdx, gc.i)
    /\ gc' = [gc EXCEPT !.i = AddU32(gc.i, 1), !.batchIdentifierHash = ZeroHash]
    /\ gpc' = "l459"
    /\ evicted' = evicted \cup {gc.i}
    /\ UNCHANGED << respVars, batchesIdentifierHashByIdx, batchesIdxByIdentifierHash,
                    batchCreatedBlockByIdx, batchDataByIdentifierHash, nextBatchIndex,
                    taskMutex, apc, call, blsTasks, receivedTasks,
                    aborted, now, assigned, warned, gcSnap, gcTick >>

\* line 459: the loop condition fails
GCLoopExit ==
    /\ ~aborted
    /\ gpc = "l459"
    /\ ~LoopCond(gc.i, gc.taskIdxToDelete)
    /\ gpc' = "l472"
    /\ UNCHANGED << respVars, registry, taskMutex, apc, call, gc, blsTasks,
                    receivedTasks, aborted, now, history >>

\* lines 472-475: lastIdxDeleted = taskIdxToDelete; agg.taskMutex.Unlock();
\* the other locals are dead until the next iteration assigns them
GCUnlock ==
    /\ ~aborted
    /\ gpc = "l472"
    /\ gc' = [lastIdxDeleted |-> gc.taskIdxToDelete, oldTaskIdHash |-> ZeroHash,
              taskIdxToDelete |-> 0, i |-> 0, batchIdentifierHash |-> ZeroHash]
    /\ taskMutex' = Unlocked
    /\ gpc' = "sleep"
    /\ gcSnap' = NoSnap
    /\ gcTick' = NoTick
    /\ UNCHANGED << respVars, registry, apc, call, blsTasks, receivedTasks,
                    aborted, now, assigned, warned, evicted >>

\* lines 430-444: a panic under the loop (GetOldTaskHash panics) unwinds out
\* of the for loop; the deferred recover logs it and ClearTasksFromMaps
\* returns, so the goroutine ends
GCQueryPanic ==
    /\ ~aborted
    /\ gpc = "sleep"
    /\ gpc' = "returned"
    /\ recovered' = recovered \cup { HeldByGC }
    /\ UNCHANGED << registry, taskMutex, apc, call, gc, blsTasks, receivedTasks,
                    aborted, now, walletMutex, hpc, resp, snap, ret, sends,
                    telemetry, aggregatedResponses, history >>

\* ------------------------------------------------------- Start: the dispatch
\* the task indices the BLS service was given
Initialised == { blsTasks[n] : n \in 1 .. Len(blsTasks) }

\* the goroutine the next go statement starts
FreeHandler ==
    CHOOSE h \in Handlers :
        hpc[h] = "idle" /\ \A g \in Handlers : hpc[g] = "idle" => h <= g

\* lines 218-222: the BLS service delivers a response, with or without an
\* error, for a task it was given, and the loop starts a handler for it
Dispatch ==
    /\ ~aborted
    /\ \E h \in Handlers : hpc[h] = "idle"
    /\ \E i \in Initialised, e \in BOOLEAN :
          resp' = [resp EXCEPT ![FreeHandler] = [TaskIndex |-> i, Err |-> e]]
    /\ hpc' = [hpc EXCEPT ![FreeHandler] = "l237"]
    /\ UNCHANGED << registry, taskMutex, apc, call, gpc, gc, blsTasks,
                    receivedTasks, aborted, now, walletMutex, snap, ret, sends,
                    telemetry, aggregatedResponses, recovered, history >>

Start == Dispatch

\* ------------------------------------------- handleBlsAggServiceResponse
\* lines 239-242: the four map reads, a zero value for a missing key
Snapshot(i) ==
    LET batchIdentifierHash == MapGet(batchesIdentifierHashByIdx, i, ZeroHash)
    IN  [batchIdentifierHash |-> batchIdentifierHash,
         batchData |-> MapGet(batchDataByIdentifierHash, batchIdentifierHash, ZeroData),
         taskCreatedBlock |-> MapGet(batchCreatedBlockByIdx, i, ZeroBlock),
         taskCreatedAt |-> MapGet(batchStartTimeByIdx, i, ZeroTime)]

\* telemetry calls, all keyed by the merkle root of the handler's copy
LogTaskError(h) == << "LogTaskError", snap[h].batchData.BatchMerkleRoot >>
LogQuorumReached(h) == << "LogQuorumReached", snap[h].batchData.BatchMerkleRoot >>
FinishTrace(h) == << "FinishTrace", snap[h].batchData.BatchMerkleRoot >>
TaskSentToEthereum(h, txHash, effectiveGasPrice) ==
    << "TaskSentToEthereum", snap[h].batchData.BatchMerkleRoot, txHash,
       effectiveGasPrice >>

\* mutant: the identifier hash is passed where the merkle root belongs
SendArgs_hashAsRoot(h) ==
    [batchIdentifierHash |-> snap[h].batchIdentifierHash,
     batchMerkleRoot |-> snap[h].batchIdentifierHash,
     senderAddress |-> snap[h].batchData.SenderAddress]

\* line 294: the arguments of sendAggregatedResponse
SendArgs(h) ==
    [batchIdentifierHash |-> snap[h].batchIdentifierHash,
     batchMerkleRoot |-> snap[h].batchData.BatchMerkleRoot,
     senderAddress |-> snap[h].batchData.SenderAddress]

\* mutant: the snapshot is taken again by a handler that is sending, under
\* the wallet mutex
HLock_underWallet(h) ==
    /\ ~aborted
    /\ hpc[h] \in { "l237", "l336" }
    /\ taskMutex = Unlocked
    /\ taskMutex' = HeldByHandler(h)
    /\ snap' = [snap EXCEPT ![h] = Snapshot(resp[h].TaskIndex)]
    /\ hpc' = [hpc EXCEPT ![h] = "l243"]
    /\ UNCHANGED << registry, apc, call, gpc, gc, blsTasks, receivedTasks,
                    aborted, now, walletMutex, resp, ret, sends, telemetry,
                    aggregatedResponses, recovered, history >>

\* lines 237-242: agg.taskMutex.Lock() returns and the handler copies the
\* entry of its task index
HLock(h) ==
    /\ ~aborted
    /\ hpc[h] = "l237"
    /\ taskMutex = Unlocked
    /\ taskMutex' = HeldByHandler(h)
    /\ snap' = [snap EXCEPT ![h] = Snapshot(resp[h].TaskIndex)]
    /\ hpc' = [hpc EXCEPT ![h] = "l243"]
    /\ UNCHANGED << registry, apc, call, gpc, gc, blsTasks, receivedTasks,
                    aborted, now, walletMutex, resp, ret, sends, telemetry,
                    aggregatedResponses, recovered, history >>

\* mutant: taskMutex is kept until the handler returns
HUnlock_kept(h) ==
    /\ ~aborted
    /\ hpc[h] = "l243"
    /\ hpc' = [hpc EXCEPT ![h] = "l249"]
    /\ UNCHANGED << registry, taskMutex, apc, call, gpc, gc, blsTasks,
                    receivedTasks, aborted, now, walletMutex, resp, snap, ret,
                    sends, telemetry, aggregatedResponses, recovered, history >>

\* line 243: agg.taskMutex.Unlock()
HUnlock(h) ==
    /\ ~aborted
    /\ hpc[h] = "l243"
    /\ taskMutex' = Unlocked
    /\ hpc' = [hpc EXCEPT ![h] = "l249"]
    /\ UNCHANGED << registry, apc, call, gpc, gc, blsTasks, receivedTasks,
                    aborted, now, walletMutex, resp, snap, ret, sends, telemetry,
                    aggregatedResponses, recovered, history >>

\* mutant: the error branch logs and does not return
HRespErr_noReturn(h) ==
    /\ ~aborted
    /\ hpc[h] = "l249"
    /\ resp[h].Err
    /\ telemetry' = [telemetry EXCEPT ![h] = @ \cup { LogTaskError(h) }]
    /\ hpc' = [hpc EXCEPT ![h] = "l287"]
    /\ UNCHANGED << registry, taskMutex, apc, call, gpc, gc, blsTasks,
                    receivedTasks, aborted, now, walletMutex, resp, snap, ret,
                    sends, aggregatedResponses, recovered, history >>

\* lines 247-253: the response carries an error: LogTaskError, return; the
\* deferred FinishTrace runs
HRespErr(h) ==
    /\ ~aborted
    /\ hpc[h] = "l249"
    /\ resp[h].Err
    /\ telemetry' = [telemetry EXCEPT ![h] = @ \cup { LogTaskError(h), FinishTrace(h) }]
    /\ hpc' = [hpc EXCEPT ![h] = "done"]
    /\ UNCHANGED << registry, taskMutex, apc, call, gpc, gc, blsTasks,
                    receivedTasks, aborted, now, walletMutex, resp, snap, ret,
                    sends, aggregatedResponses, recovered, history >>

\* lines 249-285: no error: the payload is assembled, LogQuorumReached
HQuorum(h) ==
    /\ ~aborted
    /\ hpc[h] = "l249"
    /\ ~resp[h].Err
    /\ telemetry' = [telemetry EXCEPT ![h] = @ \cup { LogQuorumReached(h) }]
    /\ hpc' = [hpc EXCEPT ![h] = "l287"]
    /\ UNCHANGED << registry, taskMutex, apc, call, gpc, gc, blsTasks,
                    receivedTasks, aborted, now, walletMutex, resp, snap, ret,
                    sends, aggregatedResponses, recovered, history >>

\* lines 254-272, 230-235: assembling the payload panics (line 267
\* dereferences SignersAggSigG1); the deferred FinishTrace runs, the deferred
\* recover logs the panic and the goroutine ends
HPayloadPanic(h) ==
    /\ ~aborted
    /\ hpc[h] = "l249"
    /\ ~resp[h].Err
    /\ telemetry' = [telemetry EXCEPT ![h] = @ \cup { FinishTrace(h) }]
    /\ recovered' = recovered \cup { HeldByHandler(h) }
    /\ hpc' = [hpc EXCEPT ![h] = "done"]
    /\ UNCHANGED << registry, taskMutex, apc, call, gpc, gc, blsTasks,
                    receivedTasks, aborted, now, walletMutex, resp, snap, ret,
                    sends, aggregatedResponses, history >>

\* lines 287-293: WaitForOneBlock returns, with an error or without: the
\* handler sends anyway
HWaitForOneBlock(h) ==
    /\ ~aborted
    /\ hpc[h] = "l287"
    /\ hpc' = [hpc EXCEPT ![h] = "l324"]
    /\ UNCHANGED << registry, taskMutex, apc, call, gpc, gc, blsTasks,
                    receivedTasks, aborted, now, walletMutex, resp, snap, ret,
                    sends, telemetry, aggregatedResponses, recovered, history >>

\* mutant: the chain writer is called without waiting for walletMutex
HWalletLock_noLock(h) ==
    /\ ~aborted
    /\ hpc[h] = "l324"
    /\ walletMutex' = HeldByHandler(h)
    /\ sends' = [sends EXCEPT ![h] = Append(@, SendArgs(h))]
    /\ hpc' = [hpc EXCEPT ![h] = "l336"]
    /\ UNCHANGED << registry, taskMutex, apc, call, gpc, gc, blsTasks,
                    receivedTasks, aborted, now, resp, snap, ret, telemetry,
                    aggregatedResponses, recovered, history >>

\* lines 324-336: agg.walletMutex.Lock() returns and the handler calls
\* agg.avsWriter.SendAggregatedResponse
HWalletLock(h) ==
    /\ ~aborted
    /\ hpc[h] = "l324"
    /\ walletMutex = Unlocked
    /\ walletMutex' = HeldByHandler(h)
    /\ sends' = [sends EXCEPT ![h] = Append(@, SendArgs(h))]
    /\ hpc' = [hpc EXCEPT ![h] = "l336"]
    /\ UNCHANGED << registry, taskMutex, apc, call, gpc, gc, blsTasks,
                    receivedTasks, aborted, now, resp, snap, ret, telemetry,
                    aggregatedResponses, recovered, history >>

\* lines 336-362: the chain writer returns no error, with a receipt or
\* without: agg.walletMutex.Unlock(), IncAggregatedResponses, return
HSendOk(h) ==
    /\ ~aborted
    /\ hpc[h] = "l336"
    /\ \E r \in { "receipt", "nil" } : ret' = [ret EXCEPT ![h] = r]
    /\ walletMutex' = Unlocked
    /\ aggregatedResponses' = aggregatedResponses + 1
    /\ hpc' = [hpc EXCEPT ![h] = "l295"]
    /\ UNCHANGED << registry, taskMutex, apc, call, gpc, gc, blsTasks,
                    receivedTasks, aborted, now, resp, snap, sends, telemetry,
                    recovered, history >>

\* mutant: the error path returns without agg.walletMutex.Unlock()
HSendError_noUnlock(h) ==
    /\ ~aborted
    /\ hpc[h] = "l336"
    /\ ret' = [ret EXCEPT ![h] = "error"]
    /\ hpc' = [hpc EXCEPT ![h] = "l295"]
    /\ UNCHANGED << registry, taskMutex, apc, call, gpc, gc, blsTasks,
                    receivedTasks, aborted, now, walletMutex, resp, snap, sends,
                    telemetry, aggregatedResponses, recovered, history >>

\* lines 336-352: the chain writer returns an error:
\* agg.walletMutex.Unlock(), return nil, err
HSendError(h) ==
    /\ ~aborted
    /\ hpc[h] = "l336"
    /\ ret' = [ret EXCEPT ![h] = "error"]
    /\ walletMutex' = Unlocked
    /\ hpc' = [hpc EXCEPT ![h] = "l295"]
    /\ UNCHANGED << registry, taskMutex, apc, call, gpc, gc, blsTasks,
                    receivedTasks, aborted, now, resp, snap, sends, telemetry,
                    aggregatedResponses, recovered, history >>

\* lines 336, 230-235: the chain writer panics: no Unlock is deferred, so
\* the panic unwinds sendAggregatedResponse with walletMutex locked; the
\* handler's deferred FinishTrace and recover run and the goroutine ends
HSendPanic(h) ==
    /\ ~aborted
    /\ hpc[h] = "l336"
    /\ telemetry' = [telemetry EXCEPT ![h] = @ \cup { FinishTrace(h) }]
    /\ recovered' = recovered \cup { HeldByHandler(h) }
    /\ hpc' = [hpc EXCEPT ![h] = "done"]
    /\ UNCHANGED << registry, taskMutex, apc, call, gpc, gc, blsTasks,
                    receivedTasks, aborted, now, walletMutex, resp, snap, ret,
                    sends, aggregatedResponses, history >>

\* mutant: a send without a receipt is handled as a failed send
HSent_receiptRequired(h) ==
    /\ ~aborted
    /\ hpc[h] = "l295"
    /\ ret[h] # "error"
    /\ telemetry' = [telemetry EXCEPT ![h] = @ \cup
          { IF ret[h] = "receipt"
            THEN TaskSentToEthereum(h, "TxHash", "EffectiveGasPrice")
            ELSE LogTaskError(h),
            FinishTrace(h) }]
    /\ hpc' = [hpc EXCEPT ![h] = "done"]
    /\ UNCHANGED << registry, taskMutex, apc, call, gpc, gc, blsTasks,
                    receivedTasks, aborted, now, walletMutex, resp, snap, ret,
                    sends, aggregatedResponses, recovered, history >>

\* lines 295-308: err == nil: TaskSentToEthereum with the receipt's hash and
\* gas price, or "Unknown" for both without a receipt; return
HSent(h) ==
    /\ ~aborted
    /\ hpc[h] = "l295"
    /\ ret[h] # "error"
    /\ telemetry' = [telemetry EXCEPT ![h] = @ \cup
          { IF ret[h] = "receipt"
            THEN TaskSentToEthereum(h, "TxHash", "EffectiveGasPrice")
            ELSE TaskSentToEthereum(h, "Unknown", "Unknown"),
            FinishTrace(h) }]
    /\ hpc' = [hpc EXCEPT ![h] = "done"]
    /\ UNCHANGED << registry, taskMutex, apc, call, gpc, gc, blsTasks,
                    receivedTasks, aborted, now, walletMutex, resp, snap, ret,
                    sends, aggregatedResponses, recovered, history >>

\* mutant: a failed send is driven again
HSendFailed_retry(h) ==
    /\ ~aborted
    /\ hpc[h] = "l295"
    /\ ret[h] = "error"
    /\ telemetry' = [telemetry EXCEPT ![h] = @ \cup { LogTaskError(h) }]
    /\ ret' = [ret EXCEPT ![h] = NoRet]
    /\ hpc' = [hpc EXCEPT ![h] = "l324"]
    /\ UNCHANGED << registry, taskMutex, apc, call, gpc, gc, blsTasks,
                    receivedTasks, aborted, now, walletMutex, resp, snap,
                    sends, aggregatedResponses, recovered, history >>

\* lines 311-318: err != nil: "this batch will be lost", LogTaskError, return
HSendFailed(h) ==
    /\ ~aborted
    /\ hpc[h] = "l295"
    /\ ret[h] = "error"
    /\ telemetry' = [telemetry EXCEPT ![h] = @ \cup { LogTaskError(h), FinishTrace(h) }]
    /\ hpc' = [hpc EXCEPT ![h] = "done"]
    /\ UNCHANGED << registry, taskMutex, apc, call, gpc, gc, blsTasks,
                    receivedTasks, aborted, now, walletMutex, resp, snap, ret,
                    sends, aggregatedResponses, recovered, history >>

\* ------------------------------------------------------------ specification
AddNewTask(c) ==
    \/ AddLock(c)
    \/ AddDuplicate(c)
    \/ AddIndexTaken(c)
    \/ AddAdmit(c)
    \/ AddL395(c)
    \/ AddL396(c)
    \/ AddL397(c)
    \/ AddL398(c)
    \/ AddL402(c)
    \/ AddL408(c)
    \/ AddBlsInit(c)
    \/ AddBlsInitFatal(c)
    \/ AddUnlock(c)

ClearTasksFromMaps ==
    \/ GCQueryErr
    \/ GCQueryNil
    \/ GCQueryPanic
    \/ GCLock
    \/ GCResolve
    \/ GCLoopFound
    \/ GCLoopMissing
    \/ GCL463
    \/ GCL464
    \/ GCL465
    \/ GCL466
    \/ GCL467
    \/ GCLoopExit
    \/ GCUnlock

Next ==
    \/ \E c \in Callers : AddNewTask(c)
    \/ ClearTasksFromMaps

\* the registry under intake and garbage collection; the response handlers
\* only read it, under taskMutex
Spec == Init /\ [][Next]_vars

handleBlsAggServiceResponse(h) ==
    \/ HLock(h)
    \/ HUnlock(h)
    \/ HRespErr(h)
    \/ HQuorum(h)
    \/ HPayloadPanic(h)
    \/ HWaitForOneBlock(h)
    \/ HWalletLock(h)
    \/ HSendOk(h)
    \/ HSendError(h)
    \/ HSendPanic(h)
    \/ HSent(h)
    \/ HSendFailed(h)

\* the callers of the runs of the aggregation loop present roots of RespRoots
RespInputs == \A c \in Callers : call[c].root \in RespRoots \cup {0}

\* AddNewTask in those runs: no call starts after MaxRespAdmissions admissions
RespAddNewTask(c) ==
    /\ apc[c] = "idle" => Len(assigned) < MaxRespAdmissions
    /\ AddNewTask(c)
    /\ RespInputs'

NextResp ==
    \/ \E c \in Callers : RespAddNewTask(c)
    \/ ClearTasksFromMaps
    \/ Start
    \/ \E h \in Handlers : handleBlsAggServiceResponse(h)

\* intake, garbage collection, the dispatch loop and the response handlers
SpecResp == Init /\ [][NextResp]_vars


\* ------------------------------------------------------------------ claims
Live == DOMAIN batchesIdentifierHashByIdx

\* no AddNewTask call is in progress and taskMutex is unlocked
Quiescent ==
    /\ ~aborted
    /\ taskMutex = Unlocked
    /\ \A c \in Callers : apc[c] = "idle"

\* the indices and the identifiers of the admissions so far, in order
AssignedIdx == { assigned[n][1] : n \in 1 .. Len(assigned) }

\* C1: at every release of taskMutex (every state in which it is unlocked)
\* the two index maps are exact inverses: idxByHash[h] = i if and only if
\* hashByIdx[i] = h, for every identifier h and index i.
C1_IndexMapsInverse ==
    taskMutex = Unlocked =>
        \A h \in Hashes, i \in Indices :
            (h \in DOMAIN batchesIdxByIdentifierHash /\ batchesIdxByIdentifierHash[h] = i)
            <=> (i \in DOMAIN batchesIdentifierHashByIdx /\ batchesIdentifierHashByIdx[i] = h)

\* C1 witness: taskMutex is unlocked after admissions and an eviction, and
\* an entry is still registered
C1_Witness ==
    /\ taskMutex = Unlocked
    /\ Len(assigned) >= 2
    /\ evicted # {}
    /\ Live # {}
    /\ DOMAIN batchesIdxByIdentifierHash # {}

\* all five entries of index i exist
AllFive(i) ==
    /\ i \in DOMAIN batchesIdentifierHashByIdx
    /\ batchesIdentifierHashByIdx[i] \in DOMAIN batchesIdxByIdentifierHash
    /\ batchesIdentifierHashByIdx[i] \in DOMAIN batchDataByIdentifierHash
    /\ i \in DOMAIN batchCreatedBlockByIdx
    /\ i \in DOMAIN batchStartTimeByIdx

\* the batch data of identifier h belongs to an admission after the n-th
\* whose index has not been evicted
DataOfLaterAdmission(h, n) ==
    \E m \in (n + 1) .. Len(assigned) :
        assigned[m][2] = h /\ assigned[m][1] \notin evicted

\* no entry of index i exists: none keyed by i, no identifier mapped to i,
\* and no batch data left behind by an admission under i
NoneOfFive(i) ==
    /\ i \notin DOMAIN batchesIdentifierHashByIdx
    /\ i \notin DOMAIN batchCreatedBlockByIdx
    /\ i \notin DOMAIN batchStartTimeByIdx
    /\ \A h \in DOMAIN batchesIdxByIdentifierHash : batchesIdxByIdentifierHash[h] # i
    /\ \A n \in 1 .. Len(assigned) :
          (assigned[n][1] = i /\ assigned[n][2] \in DOMAIN batchDataByIdentifierHash)
              => DataOfLaterAdmission(assigned[n][2], n)

\* C2: whenever taskMutex is unlocked, and whenever an actor has just locked
\* it to read the registry, every index (in particular every i < nextIndex)
\* has all five entries or none: a partially inserted or deleted index
\* exists only while another actor holds taskMutex.
C2_AllOrNone ==
    (\/ taskMutex = Unlocked
     \/ \E c \in Callers : apc[c] = "check"
     \/ gpc = "l456")
        => \A i \in Indices : AllFive(i) \/ NoneOfFive(i)

\* C2 witness: taskMutex is unlocked with one index fully present and
\* another, evicted, fully absent
C2_Witness ==
    /\ taskMutex = Unlocked
    /\ \E i \in Indices : i < nextBatchIndex /\ AllFive(i)
    /\ \E i \in Indices : i < nextBatchIndex /\ i \in evicted /\ NoneOfFive(i)

\* C3: a step that takes an AddNewTask caller out of the duplicate check with
\* its identifier present in idxByHash leaves the five maps and nextIndex
\* unchanged, makes no InitializeNewTaskWithWindow call, releases taskMutex
\* and returns; the steps of the call before the check change none of them.
C3_DuplicateIsNoOp ==
    [][\A c \in Callers :
          /\ (/\ apc[c] = "check"
              /\ call[c].hash \in DOMAIN batchesIdxByIdentifierHash
              /\ apc'[c] # "check")
                => (/\ registry' = registry
                    /\ blsTasks' = blsTasks
                    /\ taskMutex' = Unlocked
                    /\ apc'[c] = "idle")
          /\ (apc[c] = "idle" /\ apc'[c] # "idle")
                => (registry' = registry /\ blsTasks' = blsTasks)]_vars

\* C3 witness: a duplicate call has returned with its warning, and the
\* registry holds what the admissions put there
C3_Witness ==
    /\ "identifier" \in warned
    /\ Quiescent
    /\ Len(blsTasks) = Len(assigned)
    /\ Cardinality(Live) = Len(assigned)
    /\ Live # {}

\* C4: in every reachable state no two live indices map to the same
\* BatchIdentifier.
C4_OneEntryPerIdentifier ==
    \A i, j \in Live :
        batchesIdentifierHashByIdx[i] = batchesIdentifierHashByIdx[j] => i = j

\* C4 witness: an identifier was presented twice with no eviction, several
\* identifiers are registered, each under one index
C4_Witness ==
    /\ "identifier" \in warned
    /\ evicted = {}
    /\ Quiescent
    /\ Cardinality(Live) >= 2
    /\ \A h \in DOMAIN batchesIdxByIdentifierHash :
          Cardinality({ i \in Live : batchesIdentifierHashByIdx[i] = h }) = 1

\* C5: at every release of taskMutex, nextIndex equals the number of
\* AddNewTask calls admitted so far.
C5_NextIndexCountsAdmissions ==
    taskMutex = Unlocked => nextBatchIndex = Len(assigned)

\* C6: nextIndex never decreases, every change of it is an increase, and an
\* admission is never assigned an index an earlier admission was assigned.
C6_StrictlyMonotonic ==
    [][/\ nextBatchIndex' # nextBatchIndex => nextBatchIndex' > nextBatchIndex
       /\ assigned' # assigned => assigned'[Len(assigned')][1] \notin AssignedIdx]_vars

\* C7: with no eviction so far, at quiescence every AddNewTask call that
\* presented an unregistered identifier has been admitted, the live indices
\* are exactly 0 .. N-1 for the N admissions, and the admissions were assigned
\* strictly increasing indices in the order they held taskMutex.
C7_ConcurrentAdmissions ==
    (Quiescent /\ evicted = {}) =>
        /\ "index" \notin warned
        /\ Live = 0 .. (Len(assigned) - 1)
        /\ Cardinality(DOMAIN batchesIdxByIdentifierHash) = Len(assigned)
        /\ \A n, m \in 1 .. Len(assigned) : n < m => assigned[n][1] < assigned[m][1]

\* index i is absent from all five maps, given the registry of before
AbsentSince(i, before) ==
    /\ i \notin DOMAIN batchesIdentifierHashByIdx
    /\ i \notin DOMAIN batchCreatedBlockByIdx
    /\ i \notin DOMAIN batchStartTimeByIdx
    /\ \A h \in DOMAIN batchesIdxByIdentifierHash : batchesIdxByIdentifierHash[h] # i
    /\ i \in DOMAIN before[1] => before[1][i] \notin DOMAIN batchDataByIdentifierHash

\* index i has the five entries it had in the registry of before
IntactSince(i, before) ==
    /\ AllFive(i)
    /\ batchesIdentifierHashByIdx[i] = before[1][i]
    /\ batchesIdxByIdentifierHash[before[1][i]] = i
    /\ batchCreatedBlockByIdx[i] = before[3][i]
    /\ batchDataByIdentifierHash[before[1][i]] = before[4][before[1][i]]
    /\ batchStartTimeByIdx[i] = before[5][i]

\* C8: when a tick whose query returned the identifier of live index k has
\* finished its loop, every index in 0..k is absent from all five maps and
\* every index above k that was live is intact.
C8_EvictsUpToWatermark ==
    (gpc = "l472" /\ gcTick.live) =>
        /\ \A i \in 0 .. gc.taskIdxToDelete : AbsentSince(i, gcSnap)
        /\ \A i \in DOMAIN gcSnap[1] : i > gc.taskIdxToDelete => IntactSince(i, gcSnap)

\* C9: a tick whose query returned an identifier that an earlier tick evicted
\* and that has not been admitted again leaves the five maps and nextIndex
\* as they were when it locked taskMutex.
C9_EvictionIdempotent ==
    (gpc = "l472" /\ gcTick.repeat) => registry = gcSnap

\* C9 witness: such a tick has finished its loop while other entries are
\* registered
C9_Witness ==
    /\ gpc = "l472"
    /\ gcTick.repeat
    /\ Cardinality(Live) >= 2

\* C10: in every state, an index the garbage collector has evicted has no
\* entry in any of the five maps, neither under the index nor under the
\* identifier it was bound to as the entry of that index.
C10_EvictedStaysAbsent ==
    \A i \in evicted : NoneOfFive(i)

\* C10 witness: an identifier evicted under one index is registered again
\* under a later index, and the evicted index is still absent
C10_Witness ==
    /\ taskMutex = Unlocked
    /\ \E n, m \in 1 .. Len(assigned) :
          /\ n < m
          /\ assigned[n][2] = assigned[m][2]
          /\ assigned[n][1] \in evicted
          /\ assigned[m][1] \in Live
          /\ NoneOfFive(assigned[n][1])


\* ------------------------------------------- claims on the aggregation loop
\* the handler has taken its copies of the registry entry
Snapshotted(h) == hpc[h] \in { "l243", "l249", "l287", "l324", "l336", "l295" }

\* the entry AddNewTask created with its n-th admission
EntryOfAdmission(n) ==
    [batchIdentifierHash |-> assigned[n][2],
     batchData |-> CHOOSE d \in { [BatchMerkleRoot |-> r, SenderAddress |-> s] :
                                    r \in Roots, s \in Senders } :
                      Keccak256(d.BatchMerkleRoot, d.SenderAddress) = assigned[n][2],
     taskCreatedBlock |-> assigned[n][3],
     taskCreatedAt |-> assigned[n][4]]

\* the handler's copies are the entry AddNewTask created for its task index
ObservesEntry(h) ==
    \E n \in 1 .. Len(assigned) :
        /\ assigned[n][1] = resp[h].TaskIndex
        /\ snap[h] = EntryOfAdmission(n)

\* C11: whenever a handler has taken its snapshot under taskMutex for the
\* response the BLS service delivered for index i, the snapshot is the
\* registry entry AddNewTask created for i: its identifier, batch data,
\* created block and start time.
C11_SnapshotObservesEntry ==
    \A h \in Handlers : Snapshotted(h) => ObservesEntry(h)

\* the handler is inside agg.avsWriter.SendAggregatedResponse
InWriter(h) == hpc[h] = "l336"

\* C12: at most one response handler is inside the chain writer's
\* SendAggregatedResponse call at any time.
C12_SendsMutuallyExclusive ==
    \A h, g \in Handlers : (InWriter(h) /\ InWriter(g)) => h = g

\* one handler is inside the chain writer while another waits for the wallet
C12_Witness ==
    \E h, g \in Handlers : h # g /\ InWriter(h) /\ hpc[g] = "l324"

\* whoever is about to call agg.taskMutex.Lock() holds neither mutex, only
\* handlers hold walletMutex, and no two actors wait for each other's mutex
NoInvertedWait ==
    /\ \A h \in Handlers : hpc[h] = "l237" =>
          (walletMutex # HeldByHandler(h) /\ taskMutex # HeldByHandler(h))
    /\ \A c \in Callers : apc[c] = "idle" => taskMutex # HeldByCaller(c)
    /\ gpc = "sleep" => taskMutex # HeldByGC
    /\ walletMutex \in { Unlocked } \cup { HeldByHandler(h) : h \in Handlers }
    /\ ~ \E h, g \in Handlers :
          /\ walletMutex = HeldByHandler(h) /\ hpc[h] = "l237"
          /\ taskMutex = HeldByHandler(g) /\ hpc[g] = "l324"

\* a step that locks taskMutex finds it unlocked, and the goroutine that
\* locks it does not hold walletMutex
TaskMutexAcquiredInOrder ==
    (taskMutex' # taskMutex /\ taskMutex' # Unlocked) =>
        (taskMutex = Unlocked /\ walletMutex # taskMutex')

\* C13: the lock order taskMutex then walletMutex is never inverted: no
\* actor acquires or waits for taskMutex while it holds walletMutex, none
\* reacquires taskMutex while holding it, and no two actors wait for each
\* other's mutex.
C13_LockOrderNeverInverted ==
    []NoInvertedWait /\ [][TaskMutexAcquiredInOrder]_vars

\* a handler is about to lock taskMutex while another handler holds
\* walletMutex and an AddNewTask caller holds taskMutex
C13_Witness ==
    \E h, g \in Handlers, c \in Callers :
        /\ h # g
        /\ hpc[h] = "l237"
        /\ walletMutex = HeldByHandler(g)
        /\ taskMutex = HeldByCaller(c)

\* C14: when sendAggregatedResponse has returned, with a receipt, a nil
\* receipt or an error, walletMutex is not held by the handler that called
\* it, so the next submission can acquire it.
C14_WalletReleasedOnReturn ==
    \A h \in Handlers : ret[h] # NoRet => walletMutex # HeldByHandler(h)

\* after a failed send of one handler another handler has acquired the
\* wallet and is inside the chain writer
C14_Witness ==
    \E h, g \in Handlers :
        /\ h # g
        /\ ret[h] = "error"
        /\ InWriter(g)
        /\ walletMutex = HeldByHandler(g)

\* a handler whose response carries an error has made no chain writer call,
\* does not hold walletMutex, is at no position of the submission, and has
\* recorded the task error once it has returned
ErrResponseNotSent ==
    \A h \in Handlers : (hpc[h] # "idle" /\ resp[h].Err) =>
        /\ sends[h] = << >>
        /\ walletMutex # HeldByHandler(h)
        /\ hpc[h] \in { "l237", "l243", "l249", "done" }
        /\ hpc[h] = "done" => LogTaskError(h) \in telemetry[h]

\* the steps of a handler whose response carries an error leave the five
\* maps and nextBatchIndex as they are
ErrResponseKeepsRegistry ==
    \A h \in Handlers : (resp'[h].Err /\ hpc'[h] # hpc[h]) => registry' = registry

\* C15: when a BLS response carries an error the handler never calls
\* SendAggregatedResponse and never acquires walletMutex, records the
\* task-error telemetry, and leaves the registry entry of the index in place
\* (no handler step changes the five maps).
C15_ErrResponseAbandoned ==
    []ErrResponseNotSent /\ [][ErrResponseKeepsRegistry]_vars

\* a handler has returned from an error response and the entry of its index
\* is still in all five maps
C15_Witness ==
    \E h \in Handlers :
        /\ hpc[h] = "done"
        /\ resp[h].Err
        /\ LogTaskError(h) \in telemetry[h]
        /\ AllFive(resp[h].TaskIndex)

\* the arguments AddNewTask stored for the index of the handler's response
StoredArgs(h) ==
    LET n == CHOOSE m \in 1 .. Len(assigned) : assigned[m][1] = resp[h].TaskIndex
        e == EntryOfAdmission(n)
    IN  [batchIdentifierHash |-> e.batchIdentifierHash,
         batchMerkleRoot |-> e.batchData.BatchMerkleRoot,
         senderAddress |-> e.batchData.SenderAddress]

\* the handler returned from line 308 or line 318, not through a panic
Returned(h) == hpc[h] = "done" /\ HeldByHandler(h) \notin recovered

\* C16: for a success response whose index had a live registry entry at the
\* snapshot, the handler calls SendAggregatedResponse exactly once: no call
\* before it holds the wallet, one call from then on and when it has
\* returned, and the arguments are the identifier, merkle root and sender
\* address AddNewTask stored for the index, the identifier being the hash of
\* root and sender.
C16_OneSendWithStoredArgs ==
    \A h \in Handlers : (~resp[h].Err /\ ObservesEntry(h)) =>
        /\ hpc[h] \in { "l243", "l249", "l287", "l324" } => sends[h] = << >>
        /\ (hpc[h] \in { "l336", "l295" } \/ Returned(h)) => sends[h] = << StoredArgs(h) >>
        /\ \A k \in 1 .. Len(sends[h]) :
              sends[h][k].batchIdentifierHash =
                  Keccak256(sends[h][k].batchMerkleRoot, sends[h][k].senderAddress)

\* a handler has returned after one call with the stored arguments
C16_Witness ==
    \E h \in Handlers :
        /\ Returned(h)
        /\ ~resp[h].Err
        /\ ObservesEntry(h)
        /\ sends[h] = << StoredArgs(h) >>
        /\ ret[h] = "receipt"

\* a handler calls the chain writer at most once, and after an error return
\* it is at line 295 or has returned with the task error recorded
SentAtMostOnce ==
    \A h \in Handlers :
        /\ Len(sends[h]) <= 1
        /\ ret[h] = "error" =>
              /\ hpc[h] \in { "l295", "done" }
              /\ hpc[h] = "done" => LogTaskError(h) \in telemetry[h]

\* the step of a handler after an error return ends the handler, calls the
\* chain writer no more and leaves the registry as it is
FailedSendAbandoned ==
    \A h \in Handlers : (ret[h] = "error" /\ hpc'[h] # hpc[h]) =>
        /\ hpc'[h] = "done"
        /\ sends' = sends
        /\ registry' = registry

\* C17: for each BLS response SendAggregatedResponse is invoked at most once;
\* when it returns an error the handler records the error telemetry and
\* ends, without another call and without changing the registry.
C17_NoRetry ==
    []SentAtMostOnce /\ [][FailedSendAbandoned]_vars

\* a handler has returned after its one call failed
C17_Witness ==
    \E h \in Handlers :
        /\ hpc[h] = "done"
        /\ ret[h] = "error"
        /\ Len(sends[h]) = 1
        /\ LogTaskError(h) \in telemetry[h]

\* C18: a response handler that panicked, at any point of its execution, and
\* was recovered holds neither mutex, so that every other response,
\* concurrent or later, can still take its snapshot and reach its on-chain
\* submission.
C18_HandlerPanicIsolated ==
    \A h \in Handlers : HeldByHandler(h) \in recovered =>
        (taskMutex # HeldByHandler(h) /\ walletMutex # HeldByHandler(h))

\* C19: after a panic of a garbage-collector iteration was recovered and
\* logged, the collector is still in its loop: asleep before its next tick or
\* inside a tick.
C19_CollectorSurvivesPanic ==
    HeldByGC \in recovered => gpc # "returned"

\* the index of an admission in progress, registered under taskMutex and not
\* yet handed to the BLS service or not yet released
InProgress(i) ==
    \E c \in Callers : taskMutex = HeldByCaller(c) /\ call[c].batchIndex = i
                       /\ apc[c] \notin { "idle", "check" }

\* every index in the maps was initialised in the BLS service, except under
\* the taskMutex of the caller admitting it; completed admissions are
\* initialised ones; an aborted process stopped inside the call, taskMutex held
OnlyInitialisedObserved ==
    /\ \A i \in Live : i \in Initialised \/ InProgress(i)
    /\ \A h \in Handlers : hpc[h] # "idle" => resp[h].TaskIndex \in Initialised
    /\ receivedTasks <= Len(blsTasks)
    /\ aborted => \E c \in Callers :
          /\ apc[c] = "l413"
          /\ taskMutex = HeldByCaller(c)
          /\ call[c].batchIndex \notin Initialised

\* nothing runs after logger.Fatalf
NothingAfterAbort == aborted => UNCHANGED vars

\* C20: a failure of InitializeNewTaskWithWindow aborts the process inside the
\* call: no admission completes (releases taskMutex, counts the task,
\* returns) for an index the BLS service did not initialise, and no other
\* actor observes such an index.
C20_BlsInitFailureIsFatal ==
    []OnlyInitialisedObserved /\ [][NothingAfterAbort]_vars

\* the process aborted with an index registered and not initialised while a
\* handler waits for taskMutex
C20_Witness ==
    /\ aborted
    /\ \E c \in Callers :
          /\ apc[c] = "l413"
          /\ call[c].batchIndex \in Live
          /\ call[c].batchIndex \notin Initialised
    /\ \E h \in Handlers : hpc[h] = "l237"

\* a handler whose send returned neither an error nor a receipt was counted
\* as sent, and once it has returned it has recorded the sent-to-chain
\* telemetry with both "Unknown" and no task error
NoReceiptReported ==
    \A h \in Handlers : ret[h] = "nil" =>
        /\ aggregatedResponses >= 1
        /\ hpc[h] \in { "l295", "done" }
        /\ hpc[h] = "done" =>
              /\ TaskSentToEthereum(h, "Unknown", "Unknown") \in telemetry[h]
              /\ LogTaskError(h) \notin telemetry[h]

\* the return without error and without receipt increments the metric
NoReceiptCounted ==
    \A h \in Handlers : (ret[h] = NoRet /\ ret'[h] = "nil") =>
        aggregatedResponses' = aggregatedResponses + 1

Submitting(h) == hpc[h] \in { "l287", "l324", "l336" }

\* taskMutex is unlocked or held by an actor inside its critical section,
\* which it leaves without waiting for anything
TaskMutexHolderRuns ==
    \/ taskMutex = Unlocked
    \/ \E c \in Callers : taskMutex = HeldByCaller(c) /\ apc[c] # "idle"
    \/ taskMutex = HeldByGC /\ gpc \notin { "sleep", "returned" }
    \/ \E g \in Handlers : taskMutex = HeldByHandler(g) /\ hpc[g] = "l243"

\* C22: while a response handler is blocked in WaitForOneBlock, waits for
\* walletMutex or is inside the chain writer call, it does not hold
\* taskMutex; whoever holds it is inside its own critical section, and when
\* it is unlocked the dispatch loop can start the next handler, a waiting
\* handler can take its snapshot, and AddNewTask and a GC tick can lock it.
C22_SlowSubmissionDoesNotStall ==
    \A h \in Handlers : (Submitting(h) /\ ~aborted) =>
        /\ taskMutex # HeldByHandler(h)
        /\ TaskMutexHolderRuns
        /\ ((\E g \in Handlers : hpc[g] = "idle") /\ Initialised # {}) => ENABLED Dispatch
        /\ taskMutex = Unlocked =>
              /\ \A g \in Handlers : hpc[g] = "l237" => ENABLED HLock(g)
              /\ \A c \in Callers : apc[c] = "idle" => ENABLED AddLock(c)
              /\ gpc = "sleep" => ENABLED GCLock

\* one handler is inside the chain writer while another handler takes its
\* snapshot under taskMutex
C22_Witness ==
    \E h, g \in Handlers :
        /\ h # g
        /\ InWriter(h)
        /\ hpc[g] = "l243"
        /\ taskMutex = HeldByHandler(g)

\* C23: a tick whose reported identifier hash is not in
\* batchesIdxByIdentifierHash resolves the index to 0 and removes nothing:
\* when its loop has ended, the five maps and nextBatchIndex are as the tick
\* found them, whatever lastIdxDeleted was.
C23_UnknownHashRemovesNothing ==
    (gpc = "l472" /\ ~gcTick.live) =>
        (gc.taskIdxToDelete = 0 /\ registry = gcSnap)

\* such a tick has ended its loop with entries in the maps and a watermark
\* an earlier tick advanced
C23_Witness ==
    /\ gpc = "l472"
    /\ ~gcTick.live
    /\ gc.lastIdxDeleted > 0
    /\ \E i \in Live : i > gc.lastIdxDeleted
    /\ 0 \in Live

\* m' agrees with m on every key both have
KeptIn(m, mNext) == \A k \in (DOMAIN m) \cap (DOMAIN mNext) : mNext[k] = m[k]

\* no step changes a value of the maps: a step adds keys or removes keys
EntriesKept ==
    /\ KeptIn(batchDataByIdentifierHash, batchDataByIdentifierHash')
    /\ KeptIn(batchesIdentifierHashByIdx, batchesIdentifierHashByIdx')
    /\ KeptIn(batchCreatedBlockByIdx, batchCreatedBlockByIdx')
    /\ KeptIn(batchStartTimeByIdx, batchStartTimeByIdx')

\* every value in the maps is the one its admission inserted
EntriesAsInserted ==
    \A n \in 1 .. Len(assigned) :
        LET i == assigned[n][1]
            e == EntryOfAdmission(n)
        IN  /\ i \in DOMAIN batchesIdentifierHashByIdx =>
                  batchesIdentifierHashByIdx[i] = e.batchIdentifierHash
            /\ i \in DOMAIN batchCreatedBlockByIdx =>
                  batchCreatedBlockByIdx[i] = e.taskCreatedBlock
            /\ i \in DOMAIN batchStartTimeByIdx =>
                  batchStartTimeByIdx[i] = e.taskCreatedAt
            /\ e.batchIdentifierHash \in DOMAIN batchDataByIdentifierHash =>
                  batchDataByIdentifierHash[e.batchIdentifierHash] = e.batchData

\* C24: a registry entry is never mutated between its creation and its
\* deletion: dataByHash[id], hashByIdx[i], createdBlockByIdx[i] and
\* startTimeByIdx[i] equal the values AddNewTask inserted in every state in
\* which they exist, and no step of a caller, a handler or the garbage
\* collector changes a value that stays in a map.
C24_EntriesImmutable ==
    []EntriesAsInserted /\ [][EntriesKept]_vars

\* an entry is in all five maps after a handler copied it, a repeated
\* announcement of its batch was refused and the collector evicted another
C24_Witness ==
    \E h \in Handlers :
        /\ hpc[h] = "done"
        /\ ObservesEntry(h)
        /\ AllFive(resp[h].TaskIndex)
        /\ "identifier" \in warned
        /\ evicted # {}

\* a caller has been assigned an index and has not yet returned from
\* InitializeNewTaskWithWindow
BeforeInit(c) == apc[c] \in { "l395", "l396", "l397", "l398", "l402", "l408", "l413" }

\* C25: InitializeNewTaskWithWindow is called once for each assigned index,
\* with that index, in the order of the assignments, and the indices of the
\* calls increase strictly: the calls made so far are the assigned indices in
\* order, all of them but the one whose caller has not yet made the call.
C25_InitOncePerIndexInOrder ==
    /\ Len(blsTasks) <= Len(assigned)
    /\ \A n \in 1 .. Len(blsTasks) : blsTasks[n] = assigned[n][1]
    /\ \A n, m \in 1 .. Len(blsTasks) : n < m => blsTasks[n] < blsTasks[m]
    /\ Len(blsTasks) = Len(assigned) - Cardinality({ c \in Callers : BeforeInit(c) })

\* every index has been handed to the BLS service, after an eviction, and a
\* caller has returned from the call for the last one
C25_Witness ==
    /\ Len(blsTasks) = IndexMod
    /\ evicted # {}
    /\ \E c \in Callers : apc[c] = "l418"

\* C26: the watermark lastIdxDeleted never decreases: the value a tick leaves
\* at line 472 is greater than or equal to the value before the tick.
C26_WatermarkNeverDecreases ==
    [][gc'.lastIdxDeleted >= gc.lastIdxDeleted]_vars
====
